---- MODULE Spec2Model ----
(***************************************************************************)
(* Model of train/Telecom/train_ftt/experiment_with_optuna.py: the trial   *)
(* evaluator `objective` (multi-seed training with early stopping and      *)
(* pruning reports) and the search driver under `__main__` (study.optimize *)
(* with save_callback, then finalization).                                 *)
(*                                                                         *)
(* Floats are integers in units of 1e-4 (losses, AUC, PR-AUC).  The search *)
(* library calls made by the script (trial.report, trial.should_prune,     *)
(* study.optimize, study.best_trial, MedianPruner) are modelled at the     *)
(* line that makes the call, with the behaviour the library has for the    *)
(* arguments the script passes.  The Data Provider, Model Factory and      *)
(* Epoch Runner are external: a sampled configuration determines, for each *)
(* seed and epoch, the validation loss and the test metrics they return.   *)
(***************************************************************************)
EXTENDS Integers, Sequences, FiniteSets, TLC

VARIABLES
    pc,               \* position of the script
    trials,           \* study.trials: one record per trial, index = number + 1
    returned,         \* per trial: what objective(trial) returned (NoValue if it raised)
    seed_idx,         \* objective: index of the seed being run
    epoch,            \* objective: loop variable of `for epoch in range(100)`
    best_val_loss,    \* objective: early-stopping state
    best_metrics,     \* objective: <<>> for None, else <<auc, pr_auc>>
    patience_counter, \* objective: early-stopping state
    aucs,             \* objective: list of per-seed best AUCs
    pr_aucs,          \* objective: list of per-seed best PR-AUCs
    held,             \* model/optimizer/scheduler bundles built and not released by the script
    n_reports,        \* number of trial.report calls made by the running trial
    n_models,         \* number of models built so far (rtdl.FTTransformer calls)
    n_evals,          \* number of test-set evaluations made so far (evaluate calls)
    error_log,        \* trial numbers logged by logger.error in objective
    files,            \* the JSON artifacts written so far
    write_log,        \* trial numbers after which intermediate_results.json was written
    interrupted,      \* a KeyboardInterrupt reached the except clause of __main__
    uncaught          \* exception that left the script, "none" if none did

vars == <<pc, trials, returned, seed_idx, epoch, best_val_loss, best_metrics,
          patience_counter, aucs, pr_aucs, held, n_reports, n_models, n_evals,
          error_log, files, write_log, interrupted, uncaught>>

(***************************************************************************)
(* Constants of the script                                                 *)
(***************************************************************************)
\* n_trials of study.optimize (50 in the script), bounded for model checking
NTrials == 7

seeds == <<0, 1, 2>>
patience_epochs == 10
min_delta == 1
n_epochs == 100
n_startup_trials == 5
n_warmup_steps == 10
interval_steps == 5
save_interval == 5
direction == "maximize"

\* float('nan'), float('inf') and Python's None for a missing trial value
NaN == -1
Inf == 100000000
NoValue == -2

(***************************************************************************)
(* Float helpers                                                           *)
(***************************************************************************)
\* variant: NaN is ordered like a number instead of being unordered
Lt_Ordered(a, b) == a < b

\* a < b on floats: any comparison with NaN is False
Lt(a, b) == a # NaN /\ b # NaN /\ a < b

\* a - d on floats: inf - d = inf, nan - d = nan
Sub(a, d) == IF a = Inf \/ a = NaN THEN a ELSE a - d

RECURSIVE Sum(_)
Sum(s) == IF s = <<>> THEN 0 ELSE Head(s) + Sum(Tail(s))

\* np.mean; the metric tables below only hold multiples of Len(seeds), so the
\* division is exact
Mean(s) == Sum(s) \div Len(s)

Max(S) == CHOOSE x \in S : \A y \in S : y <= x
Min(S) == CHOOSE x \in S : \A y \in S : x <= y
Range(s) == {s[i] : i \in DOMAIN s}

(***************************************************************************)
(* External collaborators: sampled configurations and what training with   *)
(* them yields.  i is the seed index (0-based), e the epoch (0-based).     *)
(***************************************************************************)
Configs == {"a", "b"}

CfgIdx(c) == IF c = "a" THEN 0 ELSE 1

\* val(epoch, model, ...) -> loss_val
\*   a, seed 0: improves in each of the first 3 epochs, then flat
\*   a, seed 1: drops by exactly min_delta after the first epoch, then flat
\*   a, seed 2: improves in every epoch up to epoch 95, then flat
\*   b, seed 0: NaN throughout
\*   b, seed 1: NaN in the first epoch, then flat
\*   b, seed 2: gets worse for 4 epochs, improves at epoch 5, is worse again
\*              up to epoch 14, improves at epoch 15, then worse again
LossOf(c, i, e) ==
    CASE c = "a" /\ i = 0 -> (IF e = 0 THEN 90000 ELSE IF e = 1 THEN 70000 ELSE 50000)
      [] c = "a" /\ i = 1 -> (IF e = 0 THEN 50000 ELSE 49999)
      [] c = "a" /\ i = 2 -> (IF e < 95 THEN 100000 - 3 * e ELSE 100000 - 3 * 95)
      [] c = "b" /\ i = 0 -> NaN
      [] c = "b" /\ i = 1 -> (IF e = 0 THEN NaN ELSE 95000)
      [] OTHER            -> (IF e < 5 THEN 96000 + e ELSE IF e = 5 THEN 94000
                              ELSE IF e < 15 THEN 94500
                              ELSE IF e = 15 THEN 93000 ELSE 93500)

\* evaluate(model, 'test', X, y, seed) -> (auc, pr_auc), for the model as it is
\* after epoch e of seed index i
MetricsOf(c, i, e) ==
    << 3 * (2000 + 400 * CfgIdx(c) + 110 * i + e),
       3 * (1000 + 400 * CfgIdx(c) + 110 * i + e) >>

(***************************************************************************)
(* Search library: trial.report, trial.should_prune with MedianPruner      *)
(***************************************************************************)
\* trial.report(value, step): a step that was already reported is ignored
Report(iv, value, step) ==
    IF step \in DOMAIN iv THEN iv
    ELSE [s \in (DOMAIN iv) \cup {step} |-> IF s = step THEN value ELSE iv[s]]

LastStep(iv) == Max(DOMAIN iv)

IsFirstInIntervalStep(step, steps) ==
    LET nearest == ((step - n_warmup_steps) \div interval_steps) * interval_steps
                   + n_warmup_steps
        second_last == Max({s \in steps : s # step} \cup {-1})
    IN  second_last < nearest

\* np.nanmax / np.nanmin of the trial's own intermediate values
BestIntermediate(iv) ==
    LET vs == {iv[s] : s \in DOMAIN iv} \ {NaN}
    IN  IF vs = {} THEN NaN
        ELSE IF direction = "maximize" THEN Max(vs) ELSE Min(vs)

\* k-th smallest element of a sequence of numbers
Kth(vals, k) ==
    CHOOSE v \in Range(vals) :
        /\ Cardinality({i \in DOMAIN vals : vals[i] < v}) < k
        /\ k <= Cardinality({i \in DOMAIN vals : vals[i] <= v})

\* twice the 50th percentile (linear interpolation) of a non-empty sequence
Median2(vals) ==
    LET n == Len(vals)
    IN  Kth(vals, (n + 1) \div 2) + Kth(vals, n \div 2 + 1)

\* intermediate values of the COMPLETE trials at `step`, NaN dropped
CompletedAt(ts, step) ==
    LET F[i \in 0..Len(ts)] ==
          IF i = 0 THEN <<>>
          ELSE IF /\ ts[i].state = "COMPLETE"
                  /\ step \in DOMAIN ts[i].intermediate_values
                  /\ ts[i].intermediate_values[step] # NaN
               THEN Append(F[i - 1], ts[i].intermediate_values[step])
               ELSE F[i - 1]
    IN  F[Len(ts)]

\* MedianPruner(n_startup_trials=5, n_warmup_steps=10, interval_steps=5).prune
ShouldPrune(ts, iv) ==
    LET n_complete == Cardinality({i \in DOMAIN ts : ts[i].state = "COMPLETE"})
        step == LastStep(iv)
        best == BestIntermediate(iv)
        others == CompletedAt(ts, step)
    IN  IF n_complete = 0 \/ n_complete < n_startup_trials THEN FALSE
        ELSE IF DOMAIN iv = {} THEN FALSE
        ELSE IF step < n_warmup_steps THEN FALSE
        ELSE IF ~IsFirstInIntervalStep(step, DOMAIN iv) THEN FALSE
        ELSE IF best = NaN THEN TRUE
        ELSE IF others = <<>> THEN FALSE
        ELSE IF direction = "maximize" THEN 2 * best < Median2(others)
        ELSE 2 * best > Median2(others)

(***************************************************************************)
(* Study bookkeeping                                                       *)
(***************************************************************************)
NoAttrs == [k \in {} |-> 0]
NoIV == [s \in {} |-> 0]

number == Len(trials) - 1
cur == trials[Len(trials)]

SetCur(r) == [trials EXCEPT ![Len(trials)] = r]

\* value the study stores for a pruned trial: its last intermediate value,
\* unless that is NaN
PrunedValue(iv) ==
    IF DOMAIN iv = {} THEN NoValue
    ELSE IF iv[LastStep(iv)] = NaN THEN NoValue ELSE iv[LastStep(iv)]

\* the frame of objective is gone
ResetLocals ==
    /\ seed_idx' = 0
    /\ epoch' = 0
    /\ best_val_loss' = Inf
    /\ best_metrics' = <<>>
    /\ patience_counter' = 0
    /\ aucs' = <<>>
    /\ pr_aucs' = <<>>
    /\ n_reports' = 0

Bundle == <<number, seed_idx>>

NoFiles == [intermediate |-> <<>>, best_params |-> <<>>,
            best_detailed |-> <<>>, all_trials |-> <<>>]

Init ==
    /\ pc = "ask"
    /\ trials = <<>>
    /\ returned = <<>>
    /\ seed_idx = 0
    /\ epoch = 0
    /\ best_val_loss = Inf
    /\ best_metrics = <<>>
    /\ patience_counter = 0
    /\ aucs = <<>>
    /\ pr_aucs = <<>>
    /\ held = {}
    /\ n_reports = 0
    /\ n_models = 0
    /\ n_evals = 0
    /\ error_log = {}
    /\ files = NoFiles
    /\ write_log = <<>>
    /\ interrupted = FALSE
    /\ uncaught = "none"


(***************************************************************************)
(* objective(trial)                                                        *)
(***************************************************************************)
\* study.optimize asks for the next trial; objective samples its
\* hyperparameters (the sampled configuration is the input c)
StartTrial ==
    /\ pc = "ask"
    /\ Len(trials) < NTrials
    /\ \E c \in Configs :
         trials' = Append(trials, [number |-> Len(trials), state |-> "RUNNING",
                                   value |-> NoValue, params |-> [cfg |-> c],
                                   intermediate_values |-> NoIV,
                                   user_attrs |-> NoAttrs])
    /\ returned' = Append(returned, NoValue)
    /\ ResetLocals
    /\ pc' = "seed"
    /\ UNCHANGED <<held, n_models, n_evals, error_log, files, write_log,
                   interrupted, uncaught>>

\* variant: the early-stopping state is initialised once per trial, before the
\* seed loop
StartSeed_InitOnce ==
    /\ pc = "seed"
    /\ held' = held \cup {Bundle}
    /\ best_val_loss' = (IF seed_idx = 0 THEN Inf ELSE best_val_loss)
    /\ best_metrics' = (IF seed_idx = 0 THEN <<>> ELSE best_metrics)
    /\ patience_counter' = (IF seed_idx = 0 THEN 0 ELSE patience_counter)
    /\ epoch' = 0
    /\ n_models' = n_models + 1
    /\ pc' = "epoch"
    /\ UNCHANGED <<trials, returned, seed_idx, aucs, pr_aucs, n_reports,
                   n_evals, error_log, files, write_log, interrupted, uncaught>>

\* head of the seed loop: data, loaders, model, optimizer, scheduler and the
\* early-stopping state of this seed
StartSeed ==
    /\ pc = "seed"
    /\ held' = held \cup {Bundle}
    /\ best_val_loss' = Inf
    /\ best_metrics' = <<>>
    /\ patience_counter' = 0
    /\ epoch' = 0
    /\ n_models' = n_models + 1
    /\ pc' = "epoch"
    /\ UNCHANGED <<trials, returned, seed_idx, aucs, pr_aucs, n_reports,
                   n_evals, error_log, files, write_log, interrupted, uncaught>>

loss_val == LossOf(cur.params.cfg, seed_idx, epoch)

\* trial.report(loss_val, epoch)
Reported == Report(cur.intermediate_values, loss_val, epoch)

\* trial.should_prune()
Pruning == ShouldPrune(trials, Reported)

\* variant: the minimum delta is forgotten
Improved_NoDelta == Lt(loss_val, best_val_loss)

\* the test of the early-stopping branch
Improved == Lt(loss_val, Sub(best_val_loss, min_delta))

\* variant: the loop bound is off by one and lets epoch index 100 run
NextEpoch_OneMore ==
    IF epoch + 1 <= n_epochs
    THEN /\ epoch' = epoch + 1
         /\ pc' = "epoch"
    ELSE /\ epoch' = epoch
         /\ pc' = "seedend"

\* for epoch in range(100): the next iteration, or the end of the loop
NextEpoch ==
    IF epoch + 1 < n_epochs
    THEN /\ epoch' = epoch + 1
         /\ pc' = "epoch"
    ELSE /\ epoch' = epoch
         /\ pc' = "seedend"

\* variant: a firing pruner only breaks out of the epoch loop of this seed
EpochPruned_Break ==
    /\ pc = "epoch"
    /\ Pruning
    /\ trials' = SetCur([cur EXCEPT !.intermediate_values = Reported])
    /\ n_reports' = n_reports + 1
    /\ pc' = "seedend"
    /\ UNCHANGED <<returned, seed_idx, epoch, best_val_loss, best_metrics,
                   patience_counter, aucs, pr_aucs, held, n_models, n_evals,
                   error_log, files, write_log, interrupted, uncaught>>

\* one epoch in which the pruner fires: raise optuna.TrialPruned(), which the
\* except clause of objective logs and re-raises; the study records the trial.
\* The release at the end of the seed loop body is not reached: the bundle
\* stays until the interpreter collects the unwound frame
EpochPruned ==
    /\ pc = "epoch"
    /\ Pruning
    /\ trials' = SetCur([cur EXCEPT !.intermediate_values = Reported,
                                    !.state = "PRUNED",
                                    !.value = PrunedValue(Reported)])
    /\ error_log' = error_log \cup {number}
    /\ ResetLocals
    /\ pc' = "callback"
    /\ UNCHANGED <<returned, held, n_models, n_evals, files, write_log,
                   interrupted, uncaught>>

\* variant: the early-stopping branch runs without waiting for the pruning check
EpochImproved_Unchecked ==
    /\ pc = "epoch"
    /\ Improved
    /\ trials' = SetCur([cur EXCEPT !.intermediate_values = Reported])
    /\ n_reports' = n_reports + 1
    /\ best_val_loss' = loss_val
    /\ patience_counter' = 0
    /\ best_metrics' = MetricsOf(cur.params.cfg, seed_idx, epoch)
    /\ n_evals' = n_evals + 1
    /\ NextEpoch
    /\ UNCHANGED <<returned, seed_idx, aucs, pr_aucs, held, n_models, error_log,
                   files, write_log, interrupted, uncaught>>

\* one epoch whose validation loss improves on the best
EpochImproved ==
    /\ pc = "epoch"
    /\ ~Pruning
    /\ Improved
    /\ trials' = SetCur([cur EXCEPT !.intermediate_values = Reported])
    /\ n_reports' = n_reports + 1
    /\ best_val_loss' = loss_val
    /\ patience_counter' = 0
    /\ best_metrics' = MetricsOf(cur.params.cfg, seed_idx, epoch)
    /\ n_evals' = n_evals + 1
    /\ NextEpoch
    /\ UNCHANGED <<returned, seed_idx, aucs, pr_aucs, held, n_models, error_log,
                   files, write_log, interrupted, uncaught>>

\* variant: the loop breaks only once the counter has passed the patience
EpochNotImproved_Late ==
    /\ pc = "epoch"
    /\ ~Pruning
    /\ ~Improved
    /\ trials' = SetCur([cur EXCEPT !.intermediate_values = Reported])
    /\ n_reports' = n_reports + 1
    /\ patience_counter' = patience_counter + 1
    /\ IF patience_counter + 1 > patience_epochs
       THEN /\ epoch' = epoch
            /\ pc' = "seedend"
       ELSE NextEpoch
    /\ UNCHANGED <<returned, seed_idx, best_val_loss, best_metrics, aucs,
                   pr_aucs, held, n_models, n_evals, error_log, files,
                   write_log, interrupted, uncaught>>

\* one epoch without improvement; break once patience is used up
EpochNotImproved ==
    /\ pc = "epoch"
    /\ ~Pruning
    /\ ~Improved
    /\ trials' = SetCur([cur EXCEPT !.intermediate_values = Reported])
    /\ n_reports' = n_reports + 1
    /\ patience_counter' = patience_counter + 1
    /\ IF patience_counter + 1 >= patience_epochs
       THEN /\ epoch' = epoch
            /\ pc' = "seedend"
       ELSE NextEpoch
    /\ UNCHANGED <<returned, seed_idx, best_val_loss, best_metrics, aucs,
                   pr_aucs, held, n_models, n_evals, error_log, files,
                   write_log, interrupted, uncaught>>

\* after the epoch loop: fallback evaluation, append the seed's metrics,
\* release the model, optimizer and scheduler
EndSeed ==
    /\ pc = "seedend"
    /\ LET bm == IF best_metrics = <<>>
                 THEN MetricsOf(cur.params.cfg, seed_idx, epoch)
                 ELSE best_metrics
       IN  /\ best_metrics' = bm
           /\ aucs' = Append(aucs, bm[1])
           /\ pr_aucs' = Append(pr_aucs, bm[2])
    /\ n_evals' = IF best_metrics = <<>> THEN n_evals + 1 ELSE n_evals
    /\ held' = held \ {Bundle}
    /\ IF seed_idx + 1 < Len(seeds)
       THEN /\ seed_idx' = seed_idx + 1
            /\ pc' = "seed"
       ELSE /\ seed_idx' = seed_idx
            /\ pc' = "finish"
    /\ UNCHANGED <<trials, returned, epoch, best_val_loss, patience_counter,
                   n_reports, n_models, error_log, files, write_log,
                   interrupted, uncaught>>

\* trial.set_user_attr("detailed_results", ...); std_auc is left out
DetailedResults ==
    [hyperparams |-> cur.params,
     results |-> [aucs_per_seed |-> aucs, pr_aucs_per_seed |-> pr_aucs,
                  mean_auc |-> Mean(aucs), mean_pr_auc |-> Mean(pr_aucs),
                  seeds |-> seeds]]

\* variant: the last seed's AUC is returned instead of the mean
ObjectiveValue_Last == aucs[Len(aucs)]

\* the value objective returns
ObjectiveValue == Mean(aucs)

\* after the seed loop: aggregate, attach the detailed results, return
\* mean_auc; the study records the trial as COMPLETE with that value
FinishTrial ==
    /\ pc = "finish"
    /\ trials' = SetCur([cur EXCEPT
                           !.user_attrs = [k \in {"detailed_results"} |-> DetailedResults],
                           !.state = "COMPLETE",
                           !.value = ObjectiveValue])
    /\ returned' = [returned EXCEPT ![Len(trials)] = ObjectiveValue]
    /\ ResetLocals
    /\ pc' = "callback"
    /\ UNCHANGED <<held, n_models, n_evals, error_log, files, write_log,
                   interrupted, uncaught>>

\* get_data, the model construction, train, val or evaluate raises: the except
\* clause of objective logs and re-raises; study.optimize is called without
\* `catch`, so it records the trial as FAIL and lets the exception through,
\* and `except KeyboardInterrupt` does not handle it
TrialError ==
    /\ pc \in {"seed", "epoch", "seedend"}
    /\ trials' = SetCur([cur EXCEPT !.state = "FAIL"])
    /\ error_log' = error_log \cup {number}
    /\ ResetLocals
    /\ uncaught' = "Exception"
    /\ pc' = "crashed"
    /\ UNCHANGED <<returned, held, n_models, n_evals, files, write_log,
                   interrupted>>


(***************************************************************************)
(* __main__: save_callback, the search loop and finalization               *)
(***************************************************************************)
\* dict.update
Merge(f, g) == [k \in (DOMAIN f) \cup (DOMAIN g) |-> IF k \in DOMAIN g THEN g[k] ELSE f[k]]

\* one entry of intermediate_results.json
ResultEntry(t) ==
    LET base == Merge([trial_number |-> t.number, value |-> t.value], t.params)
    IN  IF "detailed_results" \in DOMAIN t.user_attrs
        THEN Merge(base, t.user_attrs["detailed_results"])
        ELSE base

\* one entry of all_trials_detailed.json
TrialData(t) ==
    LET base == [trial_number |-> t.number, value |-> t.value,
                 params |-> t.params, state |-> t.state]
    IN  IF "detailed_results" \in DOMAIN t.user_attrs
        THEN Merge(base, [k \in {"detailed_results"} |-> t.user_attrs["detailed_results"]])
        ELSE base

\* the trials kept by `if t.value is not None`, in study order
HasValue(t) == t.value # NoValue
TrialsWithValue(ts) == SelectSeq(ts, HasValue)

\* the list save_callback dumps
Results(ts) ==
    LET kept == TrialsWithValue(ts)
    IN  [k \in 1..Len(kept) |-> ResultEntry(kept[k])]

\* the list the finalization dumps
AllTrials(ts) ==
    LET kept == TrialsWithValue(ts)
    IN  [k \in 1..Len(kept) |-> TrialData(kept[k])]

\* variant: the callback counts trials instead of testing the trial number
SaveDue_Count(n) == (n + 1) % save_interval = 0

\* the test of save_callback
SaveDue(n) == n % save_interval = 0

\* study.optimize calls save_callback(study, trial) for the trial that just
\* finished, then goes on to the next trial or returns
SaveCallback ==
    /\ pc = "callback"
    /\ IF SaveDue(number)
       THEN /\ files' = [files EXCEPT !.intermediate = <<Results(trials)>>]
            /\ write_log' = Append(write_log, number)
       ELSE UNCHANGED <<files, write_log>>
    /\ pc' = IF Len(trials) < NTrials THEN "ask" ELSE "final"
    /\ UNCHANGED <<trials, returned, seed_idx, epoch, best_val_loss,
                   best_metrics, patience_counter, aucs, pr_aucs, held,
                   n_reports, n_models, n_evals, error_log, interrupted,
                   uncaught>>

InTrial == pc \in {"seed", "epoch", "seedend", "finish"}

\* KeyboardInterrupt while study.optimize runs: it is not an Exception, so
\* objective does not log it; the study records a running trial as FAIL and
\* the except clause of __main__ swallows it
Interrupt ==
    /\ pc \in {"ask", "seed", "epoch", "seedend", "finish", "callback"}
    /\ trials' = IF InTrial THEN SetCur([cur EXCEPT !.state = "FAIL"]) ELSE trials
    /\ ResetLocals
    /\ interrupted' = TRUE
    /\ pc' = "final"
    /\ UNCHANGED <<returned, held, n_models, n_evals, error_log, files,
                   write_log, uncaught>>

Completed(ts) == {i \in DOMAIN ts : ts[i].state = "COMPLETE"}

\* variant: the latest COMPLETE trial is taken as the best one
BestTrial_Latest(ts) == Max(Completed(ts))

\* study.best_trial: the COMPLETE trial with the best value, the earliest
\* one among equals (index into study.trials)
BestTrial(ts) ==
    CHOOSE i \in Completed(ts) :
        \A j \in Completed(ts) :
            IF direction = "maximize"
            THEN ts[j].value < ts[i].value \/ (ts[j].value = ts[i].value /\ i <= j)
            ELSE ts[j].value > ts[i].value \/ (ts[j].value = ts[i].value /\ i <= j)

\* everything after the search loop; study.best_trial raises ValueError when
\* no trial is COMPLETE, before anything is written
Finalize ==
    /\ pc = "final"
    /\ IF Completed(trials) = {}
       THEN /\ uncaught' = "ValueError"
            /\ pc' = "crashed"
            /\ UNCHANGED files
       ELSE LET best_trial == trials[BestTrial(trials)]
            IN  /\ files' = [files EXCEPT
                      !.best_params = <<best_trial.params>>,
                      !.best_detailed =
                          IF "detailed_results" \in DOMAIN best_trial.user_attrs
                          THEN <<best_trial.user_attrs["detailed_results"]>>
                          ELSE @,
                      !.all_trials = <<AllTrials(trials)>>]
                /\ pc' = "done"
                /\ UNCHANGED uncaught
    /\ UNCHANGED <<trials, returned, seed_idx, epoch, best_val_loss,
                   best_metrics, patience_counter, aucs, pr_aucs, held,
                   n_reports, n_models, n_evals, error_log, write_log,
                   interrupted>>

\* the events that can strike at any statement first, then the statements
Next ==
    \/ Interrupt
    \/ TrialError
    \/ StartTrial
    \/ StartSeed
    \/ EpochPruned
    \/ EpochImproved
    \/ EpochNotImproved
    \/ EndSeed
    \/ FinishTrial
    \/ SaveCallback
    \/ Finalize

Spec == Init /\ [][Next]_vars

\* the interpreter runs the script statement after statement: while a step of
\* the script is possible, one is eventually taken
FairSpec == Init /\ [][Next]_vars /\ WF_vars(Next)

TypeOK ==
    /\ pc \in {"ask", "seed", "epoch", "seedend", "finish", "callback",
               "final", "done", "crashed"}
    /\ Len(trials) <= NTrials
    /\ Len(returned) = Len(trials)
    /\ seed_idx \in 0..(Len(seeds) - 1)
    /\ epoch \in 0..(n_epochs - 1)
    /\ patience_counter \in 0..patience_epochs
    /\ n_models \in Nat
    /\ n_evals \in Nat


(***************************************************************************)
(* Properties                                                              *)
(***************************************************************************)
\* all test metrics the epochs of seed index i can yield under configuration c
SeedMetrics ==
    [c \in Configs, i \in 0..(Len(seeds) - 1) |->
        {MetricsOf(c, i, e) : e \in 0..(n_epochs - 1)}]

HasDetail(t) == "detailed_results" \in DOMAIN t.user_attrs
Detail(t) == t.user_attrs["detailed_results"]

\* C1: for every trial whose evaluation finished without pruning or failure,
\* the value objective returned is the mean of the per-seed AUCs stored in the
\* trial's detailed results, and these hold exactly one AUC and one PR-AUC per
\* seed, the k-th being test metrics of the k-th seed of the seed list.
C1_ObjectiveIsMeanOfSeedAucs ==
    \A i \in DOMAIN trials :
        trials[i].state = "COMPLETE" =>
            /\ HasDetail(trials[i])
            /\ LET r == Detail(trials[i]).results
                   c == trials[i].params.cfg
               IN  /\ Len(r.aucs_per_seed) = Len(seeds)
                   /\ Len(r.pr_aucs_per_seed) = Len(seeds)
                   /\ returned[i] * Len(seeds) = Sum(r.aucs_per_seed)
                   /\ trials[i].value = returned[i]
                   /\ \A k \in 1..Len(seeds) :
                        <<r.aucs_per_seed[k], r.pr_aucs_per_seed[k]>>
                            \in SeedMetrics[c, k - 1]

\* a trial completed, with different AUCs for its seeds
C1_Witness ==
    \E i \in DOMAIN trials :
        /\ trials[i].state = "COMPLETE"
        /\ Cardinality(Range(Detail(trials[i]).results.aucs_per_seed)) = Len(seeds)

\* the best validation loss before epoch e of seed i under configuration c, as
\* the early-stopping policy defines it
StepBest(b, l) == IF l # NaN /\ (b = Inf \/ l < b - min_delta) THEN l ELSE b

\* the effect of epochs from..to-1 on the best loss, as a function of the best
\* loss before them (to > from)
RECURSIVE Through(_, _, _, _)
Through(c, i, from, to) ==
    IF to = from + 1 THEN [b \in Int |-> StepBest(b, LossOf(c, i, from))]
    ELSE LET mid == (from + to) \div 2
         IN  [b \in Int |-> Through(c, i, mid, to)[Through(c, i, from, mid)[b]]]

BestTable ==
    [c \in Configs, i \in 0..(Len(seeds) - 1) |->
        [e \in 0..n_epochs |-> IF e = 0 THEN Inf ELSE Through(c, i, 0, e)[Inf]]]

BestBefore(c, i, e) == BestTable[c, i][e]

ImprovesAt(c, i, e) == StepBest(BestBefore(c, i, e), LossOf(c, i, e)) # BestBefore(c, i, e)

\* the loss improves at epoch e and then fails to improve for patience_epochs
\* epochs (or up to the last epoch of range(100))
LastImprovement(c, i, e) ==
    /\ ImprovesAt(c, i, e)
    /\ \A k \in 1..patience_epochs :
         e + k <= n_epochs - 1 => ~ImprovesAt(c, i, e + k)

ThreeThenFlat(c, i) ==
    /\ \A e \in 0..2 : ImprovesAt(c, i, e)
    /\ \A e \in 3..(3 + patience_epochs) : LossOf(c, i, e) = LossOf(c, i, 2)

\* C2: when a seed's epoch loop has ended without pruning and the validation
\* loss last improved at epoch e, the loop ended at epoch e + 10 (or at the
\* last of the 100 epochs if that comes first) and the best metrics are the
\* test metrics of epoch e; a loss that improves in each of the first 3 epochs
\* and is flat afterwards makes the seed run 3 + 10 = 13 epochs.
C2_EarlyStopAtImprovementPlusPatience ==
    pc = "seedend" =>
        LET c == cur.params.cfg
        IN  /\ \A e \in 0..epoch :
                 LastImprovement(c, seed_idx, e) =>
                     /\ epoch = (IF e + patience_epochs <= n_epochs - 1
                                 THEN e + patience_epochs ELSE n_epochs - 1)
                     /\ best_metrics = MetricsOf(c, seed_idx, e)
            /\ ThreeThenFlat(c, seed_idx) => epoch + 1 = 3 + patience_epochs

\* the loop of a seed whose loss improved in the first 3 epochs only has ended
\* by early stopping, with the metrics of the third epoch
C2_Witness ==
    /\ pc = "seedend"
    /\ ThreeThenFlat(cur.params.cfg, seed_idx)
    /\ patience_counter = patience_epochs
    /\ epoch = 12
    /\ best_metrics = MetricsOf(cur.params.cfg, seed_idx, 2)

\* a seed's loop ended at the last of the 100 epochs, before patience ran out
C2_WitnessCap ==
    /\ pc = "seedend"
    /\ epoch = n_epochs - 1
    /\ patience_counter < patience_epochs
    /\ best_metrics # MetricsOf(cur.params.cfg, seed_idx, epoch)

\* C3: when the pruning check signals at an epoch of any seed, the next step
\* ends the evaluation of the trial: no value is returned and no detailed
\* result is attached; a pruned trial has neither, and nothing of it changes
\* afterwards (no further epoch or seed of it runs).
C3_PruningAbortsTrial ==
    /\ [][(pc = "epoch" /\ Pruning) =>
            /\ pc' \notin {"seed", "epoch", "seedend", "finish"}
            /\ returned'[Len(trials)] = NoValue
            /\ ~HasDetail(trials'[Len(trials)])]_vars
    /\ [][\A i \in DOMAIN trials :
            trials[i].state = "PRUNED" =>
                trials'[i] = trials[i] /\ returned'[i] = returned[i]]_vars
    /\ [](\A i \in DOMAIN trials :
            trials[i].state = "PRUNED" =>
                /\ returned[i] = NoValue
                /\ ~HasDetail(trials[i])
                /\ (i = Len(trials) => pc \notin {"seed", "epoch", "seedend", "finish"}))

\* a trial was pruned in its third seed (configuration b is only ever pruned
\* at step 15, which its first two seeds do not reach), after two seeds of it
\* had finished
C3_Witness ==
    \E i \in DOMAIN trials :
        /\ trials[i].state = "PRUNED"
        /\ trials[i].params.cfg = "b"
        /\ LastStep(trials[i].intermediate_values) = 15

\* a trial was pruned in its first seed
C3_WitnessFirstSeed ==
    \E i \in DOMAIN trials :
        /\ trials[i].state = "PRUNED"
        /\ trials[i].params.cfg = "a"
        /\ LastStep(trials[i].intermediate_values) = 10


FailedByException(i) == trials[i].state = "FAIL" /\ (i - 1) \in error_log

\* C4: a trial whose evaluation raised an exception other than the pruning
\* signal is recorded as failed and the search goes on: the exception does not
\* leave the search loop, so it neither ends the study early nor prevents
\* finalization.
C4_FailureIsolated ==
    \A i \in DOMAIN trials :
        FailedByException(i) => uncaught # "Exception" /\ pc # "crashed"

\* C5: once a user interrupt has been caught at the search loop, the script
\* ends with finalization done: best_params.json and all_trials_detailed.json
\* are written and no exception leaves the script.
C5_InterruptFinalizes ==
    (interrupted /\ pc \in {"done", "crashed"}) =>
        /\ pc = "done"
        /\ uncaught = "none"
        /\ files.best_params # <<>>
        /\ files.all_trials # <<>>

EntryNumbers(file) ==
    IF file = <<>> THEN {} ELSE {file[1][k].trial_number : k \in DOMAIN file[1]}

\* C6: a pruned trial has no value, and it is an entry of neither
\* intermediate_results.json nor all_trials_detailed.json.
C6_PrunedHasNoValue ==
    \A i \in DOMAIN trials :
        trials[i].state = "PRUNED" =>
            /\ trials[i].value = NoValue
            /\ trials[i].number \notin EntryNumbers(files.intermediate)
            /\ trials[i].number \notin EntryNumbers(files.all_trials)

\* C7: when finalization is done, best_params.json holds the hyperparameters
\* (and best_detailed_results.json the detailed results) of a trial whose
\* returned objective value is the maximum of all returned objective values,
\* whatever the order in which the values came.
C7_BestTrialIsMaximum ==
    pc = "done" =>
        \E j \in DOMAIN trials :
            /\ returned[j] # NoValue
            /\ \A i \in DOMAIN trials : returned[i] # NoValue => returned[i] <= returned[j]
            /\ files.best_params = <<trials[j].params>>
            /\ HasDetail(trials[j]) => files.best_detailed = <<Detail(trials[j])>>

\* finalization is done and the best value was neither the first nor the last
\* one returned
C7_Witness ==
    /\ pc = "done"
    /\ \E i, j, k \in DOMAIN trials :
         /\ i < j /\ j < k
         /\ returned[i] # NoValue /\ returned[k] # NoValue
         /\ returned[j] > returned[i] /\ returned[j] > returned[k]
         /\ files.best_params = <<trials[j].params>>

\* S has exactly one entry for each trial of ts that has a value, carrying the
\* trial's number, value and hyperparameters, with the fields of the detailed
\* results merged in when the trial has them
SnapshotOf(S, ts) ==
    /\ \A i \in DOMAIN ts :
         Cardinality({k \in DOMAIN S : S[k].trial_number = ts[i].number})
             = (IF ts[i].value # NoValue THEN 1 ELSE 0)
    /\ \A k \in DOMAIN S :
         \E i \in DOMAIN ts :
            /\ S[k].trial_number = ts[i].number
            /\ S[k].value = ts[i].value
            /\ S[k].cfg = ts[i].params.cfg
            /\ IF HasDetail(ts[i])
               THEN /\ S[k].hyperparams = Detail(ts[i]).hyperparams
                    /\ S[k].results = Detail(ts[i]).results
               ELSE DOMAIN S[k] = {"trial_number", "value", "cfg"}

\* C8 as stated: intermediate_results.json is only written after a completed
\* trial whose index is a multiple of 5.
C8_OnlyAfterCompletedTrials ==
    \A k \in DOMAIN write_log :
        /\ write_log[k] % 5 = 0
        /\ trials[write_log[k] + 1].state = "COMPLETE"

\* C8 as amended: intermediate_results.json is written exactly when the
\* callback runs for a trial whose index is a multiple of 5, whether that
\* trial completed or was pruned, and after no other trial; the snapshot has
\* exactly one entry for every trial that has a value at that moment, with the
\* fields of the detailed results merged in when present.
C8_SnapshotAtEveryFifthIndex ==
    /\ [](\A k \in DOMAIN write_log :
            /\ write_log[k] % 5 = 0
            /\ trials[write_log[k] + 1].state \in {"COMPLETE", "PRUNED"})
    /\ [](IF write_log = <<>> THEN files.intermediate = <<>>
          ELSE /\ Len(files.intermediate) = 1
               /\ SnapshotOf(files.intermediate[1],
                             SubSeq(trials, 1, write_log[Len(write_log)] + 1)))
    /\ [][(pc = "callback" /\ pc' \in {"ask", "final"} /\ ~interrupted' /\ number % 5 = 0)
            => write_log' = Append(write_log, number)]_vars
    /\ [][write_log' # write_log
            => pc = "callback" /\ write_log' = Append(write_log, number)]_vars

\* the file was written after trial 5 was pruned, and the pruned trial, which
\* has a value, is an entry of it
C8_Witness ==
    /\ write_log = <<0, 5>>
    /\ trials[6].state = "PRUNED"
    /\ trials[6].value # NoValue
    /\ 5 \in EntryNumbers(files.intermediate)

\* C9: every epoch of every seed that ran has its own entry among the trial's
\* intermediate values.
C9_EveryEpochHasItsEntry ==
    pc \in {"seed", "epoch", "seedend", "finish"} =>
        Cardinality(DOMAIN cur.intermediate_values) = n_reports

\* C10: whenever a seed is about to build its model, optimizer and scheduler,
\* no bundle of an earlier seed or trial is still held.
C10_ReleasedOnEveryPath ==
    pc = "seed" => held = {}

\* the first epoch of seed index i under configuration c whose validation loss
\* is a number below +infinity; n_epochs when there is none
FirstBelowInf ==
    [c \in Configs, i \in 0..(Len(seeds) - 1) |->
        LET S == {e \in 0..(n_epochs - 1) : LossOf(c, i, e) \notin {NaN, Inf}}
        IN  IF S = {} THEN n_epochs ELSE Min(S)]

\* the last epoch of the running seed whose early-stopping branch has run
LastEpochDone == IF pc = "seedend" THEN epoch ELSE epoch - 1

\* C11 as stated: after the first epoch of every seed the snapshot is set,
\* whatever the validation pass returned, so at loop exit the fallback
\* evaluation has nothing to do.
C11_FallbackNeverExecuted ==
    /\ (pc = "epoch" /\ epoch >= 1) => best_metrics # <<>>
    /\ pc = "seedend" => best_metrics # <<>>

\* C11, amended: a validation loss counts as an improvement over the initial
\* +infinity exactly when it is a number below +infinity (NaN and +infinity do
\* not); inside the loop and at its exit the snapshot is unset exactly when no
\* epoch of the seed so far returned such a loss, and in that case the code
\* after the loop makes the fallback test evaluation and records its metrics.
C11_SnapshotUnsetIffNoLossBelowInfinity ==
    /\ [](pc \in {"epoch", "seedend"} =>
            ((best_metrics = <<>>) <=>
                (LastEpochDone < FirstBelowInf[cur.params.cfg, seed_idx])))
    /\ [][(pc = "seedend" /\ best_metrics = <<>> /\ Len(aucs') = Len(aucs) + 1) =>
            /\ n_evals' = n_evals + 1
            /\ aucs'[Len(aucs')] = MetricsOf(cur.params.cfg, seed_idx, epoch)[1]]_vars

\* a seed whose every validation loss was NaN leaves the loop by patience with
\* the snapshot unset
C11_Witness ==
    /\ pc = "seedend"
    /\ best_metrics = <<>>
    /\ epoch = patience_epochs - 1
    /\ LossOf(cur.params.cfg, seed_idx, 0) = NaN

\* C12: the index of a pruned trial is never written by the error logging of
\* objective; only trials ended by another exception are logged there.
C12_PruningBypassesErrorLog ==
    \A i \in DOMAIN trials :
        trials[i].state = "PRUNED" => (i - 1) \notin error_log

\* C13: within an epoch the report to the pruner and the pruning check come
\* before the early-stopping branch: a step of the epoch loop that runs the
\* branch has reported this epoch's loss and found the pruner silent, and when
\* the pruner fires at an epoch the trial ends with that epoch's loss reported,
\* no test evaluation is made, and neither the best loss nor the snapshot takes
\* that epoch's value, even when the loss was an improvement.
C13_PruningCheckBeforeEarlyStopping ==
    /\ [][(pc = "epoch" /\ pc' \in {"epoch", "seedend"}) =>
            /\ ~Pruning
            /\ trials'[Len(trials')].intermediate_values = Reported]_vars
    /\ [][(pc = "epoch" /\ Pruning) =>
            /\ pc' \notin {"epoch", "seedend"}
            /\ n_evals' = n_evals
            /\ best_val_loss' # loss_val
            /\ best_metrics' # MetricsOf(cur.params.cfg, seed_idx, epoch)
            /\ trials'[Len(trials')].state = "PRUNED" =>
                   trials'[Len(trials')].intermediate_values = Reported]_vars

\* the pruner fired at an epoch whose validation loss was an improvement
C13_Witness ==
    /\ pc = "callback"
    /\ cur.state = "PRUNED"
    /\ cur.params.cfg = "b"
    /\ LastStep(cur.intermediate_values) = 15
    /\ cur.intermediate_values[15] = LossOf("b", 2, 15)
    /\ ImprovesAt("b", 2, 15)

\* C14: every seed starts its epoch loop with the early-stopping state
\* (+infinity, 0, unset); a snapshot held inside the loop is the test metrics of
\* an epoch this seed has already run, and the metrics a seed appends to the
\* per-seed lists are those of one of its own epochs.
C14_EarlyStoppingStateIsPerSeed ==
    /\ [][(pc = "seed" /\ pc' = "epoch") =>
            /\ best_val_loss' = Inf
            /\ patience_counter' = 0
            /\ best_metrics' = <<>>]_vars
    /\ []((pc \in {"epoch", "seedend"} /\ best_metrics # <<>>) =>
            \E e \in 0..LastEpochDone :
                best_metrics = MetricsOf(cur.params.cfg, seed_idx, e))
    /\ [][(pc = "seedend" /\ Len(aucs') = Len(aucs) + 1) =>
            \E e \in 0..epoch :
                <<aucs'[Len(aucs')], pr_aucs'[Len(pr_aucs')]>> =
                    MetricsOf(cur.params.cfg, seed_idx, e)]_vars

\* the second seed of a trial has recorded metrics of its own epochs and the
\* third seed has started afresh
C14_Witness ==
    /\ pc = "epoch"
    /\ seed_idx = 2
    /\ epoch = 0
    /\ best_metrics = <<>>
    /\ Len(aucs) = 2
    /\ <<aucs[2], pr_aucs[2]>> \in SeedMetrics[cur.params.cfg, 1]
    /\ <<aucs[1], pr_aucs[1]>> # <<aucs[2], pr_aucs[2]>>

\* C15: the run is bounded and ends. No epoch index reaches n_epochs, a trial
\* builds at most one model per seed of the seed list, at most NTrials trials
\* are started, so at most Len(seeds) * NTrials models are built; every run
\* eventually leaves the search loop for good, and a run that has used its
\* whole trial budget goes on to finalization and completes it.
C15_SearchTerminates ==
    /\ [](epoch <= n_epochs - 1)
    /\ [](Len(trials) <= NTrials)
    /\ [](InTrial => n_models <= Len(seeds) * (Len(trials) - 1) + seed_idx + 1)
    /\ [](n_models <= Len(seeds) * Len(trials))
    /\ [](n_models <= Len(seeds) * NTrials)
    /\ <>(pc \in {"done", "crashed"})
    /\ (Len(trials) = NTrials /\ pc = "callback") ~> (pc = "done")

\* a run that used the whole budget without pruning built every model and
\* finished finalization
C15_Witness ==
    /\ pc = "done"
    /\ ~interrupted
    /\ Len(trials) = NTrials
    /\ n_models = Len(seeds) * NTrials

\* C16: a trial is pruned only when the validation loss it reported last is
\* higher than the median of the validation losses the trials completed before
\* it reported at the same step.
C16_PrunedOnlyWhenWorseThanMedian ==
    \A i \in DOMAIN trials :
        trials[i].state = "PRUNED" =>
            LET iv == trials[i].intermediate_values
                step == LastStep(iv)
                others == CompletedAt(SubSeq(trials, 1, i - 1), step)
            IN  /\ others # <<>>
                /\ iv[step] # NaN
                /\ 2 * iv[step] > Median2(others)

\* C17: inside the epoch loop of a seed, and at its exit, the no-improvement
\* counter lies in 0..patience_epochs and the snapshot is set exactly when the
\* best validation loss is below +infinity; from one epoch to the next the best
\* validation loss never increases, and an epoch that changed it leaves the
\* counter at 0.
C17_EarlyStoppingInvariants ==
    /\ [](pc \in {"epoch", "seedend"} =>
            /\ patience_counter \in 0..patience_epochs
            /\ (best_metrics # <<>>) <=> Lt(best_val_loss, Inf))
    /\ [][(pc = "epoch" /\ pc' \in {"epoch", "seedend"}) =>
            /\ best_val_loss' # NaN
            /\ best_val_loss' <= best_val_loss
            /\ best_val_loss' # best_val_loss => patience_counter' = 0]_vars

\* after four epochs without improvement an epoch lowered the best loss and
\* put the counter back to 0
C17_Witness ==
    /\ pc = "epoch"
    /\ cur.params.cfg = "b"
    /\ seed_idx = 2
    /\ epoch = 6
    /\ patience_counter = 0
    /\ best_val_loss = LossOf("b", 2, 5)
    /\ best_val_loss < LossOf("b", 2, 0)

====
